---- MODULE Spec2Model ----
(***************************************************************************)
(* Model of the questionnaire batch processor: the page calculator         *)
(* (utils/page-calculator.ts), the respondent distributor and the request  *)
(* handler (process-pdf.ts) with its collaborators downloadPdf,            *)
(* annotatePdf, createZip and uploadToFileIo.                              *)
(*                                                                         *)
(* JavaScript arrays are 0-based, TLA+ sequences 1-based: element k of a   *)
(* sequence is array element k-1.  pdfIndex and respondentIndexInPdf keep  *)
(* their 0-based values.                                                   *)
(***************************************************************************)
EXTENDS Integers, Sequences, FiniteSets, TLC

VARIABLES
  event,                \* the HandlerEvent of this invocation
  pc,                   \* position of the async handler (its pending await)
  distributionPlan,     \* const distributionPlan (process-pdf.ts:128)
  planned,              \* TRUE once distributeRespondents has been called
  planIdx,              \* 1-based position of planItem in the for..of loop
  pdfBuffer,            \* const pdfBuffer of the current iteration
  annotatedPdfBuffers,  \* process-pdf.ts:147
  respondentsPerFile,   \* process-pdf.ts:148
  zipBuffer,            \* const zipBuffer (process-pdf.ts:190)
  calls,                \* collaborator calls made so far, in call order
  response,             \* the value the handler returned
  fn,                   \* planner function applied last (calculator runs)
  args,                 \* inputs of the calculator run
  result,               \* value returned by the function named in fn
  twin                  \* the finished invocation a second one is compared to

vars == <<event, pc, distributionPlan, planned, planIdx, pdfBuffer,
          annotatedPdfBuffers, respondentsPerFile, zipBuffer, calls,
          response, fn, args, result, twin>>

handlerVars == <<event, pc, distributionPlan, planned, planIdx, pdfBuffer,
                 annotatedPdfBuffers, respondentsPerFile, zipBuffer, calls,
                 response>>

plannerVars == <<fn, args, result>>

---------------------------------------------------------------------------
(* Bounds of the model *)

MaxPdfs == 3
MaxRespondents == 5
MaxPages == 4
MaxIndex == 3
MaxBatchPdfs == 3
MaxBatchRespondents == 3
MaxBatchPages == 2
MaxSliceRespondents == 3
MaxDocPages == 19
MaxPairPdfs == 2
MaxPairRespondents == 2
MaxPairPages == 1

Codes == {"A", "B"}
Urls == {"u1", "u2"}

SeqsUpTo(S, n) == UNION {[1..k -> S] : k \in 0..n}

Min(a, b) == IF a < b THEN a ELSE b

Max(a, b) == IF a > b THEN a ELSE b

---------------------------------------------------------------------------
(* utils/page-calculator.ts *)

getPagesPerRespondentBlock_noRounding(pagesPerQuestionnaire) ==
  2 + pagesPerQuestionnaire

getPagesPerRespondentBlock(pagesPerQuestionnaire) ==
  LET total == 2 + pagesPerQuestionnaire
  IN  IF total % 2 # 0 THEN total + 1 ELSE total

calculateAnnotationPages_offByOne(respondentIndexInPdf, pagesPerQuestionnaire) ==
  LET pagesPerBlock == getPagesPerRespondentBlock(pagesPerQuestionnaire)
      startPageOfBlock == respondentIndexInPdf * pagesPerBlock
      firstAnnotationPage == startPageOfBlock + 1
  IN  [i \in 1..pagesPerQuestionnaire |-> firstAnnotationPage + (i - 1)]

calculateAnnotationPages_packed(respondentIndexInPdf, pagesPerQuestionnaire) ==
  LET startPageOfBlock == respondentIndexInPdf * pagesPerQuestionnaire
      firstAnnotationPage == startPageOfBlock + 2
  IN  [i \in 1..pagesPerQuestionnaire |-> firstAnnotationPage + (i - 1)]

\* Array.from({length: n}, (_, i) => f(i)): element i (0-based) is f(i).
calculateAnnotationPages(respondentIndexInPdf, pagesPerQuestionnaire) ==
  LET pagesPerBlock == getPagesPerRespondentBlock(pagesPerQuestionnaire)
      startPageOfBlock == respondentIndexInPdf * pagesPerBlock
      firstAnnotationPage == startPageOfBlock + 2
  IN  [i \in 1..pagesPerQuestionnaire |-> firstAnnotationPage + (i - 1)]

\* The page indices of a list, as pagesToAnnotate.forEach visits them.
PageSet(pages) == {pages[m] : m \in 1..Len(pages)}

---------------------------------------------------------------------------
(* process-pdf.ts: distributeRespondents *)

\* Math.ceil(a / b) for integers a >= 0, b >= 0.  a / 0 is Infinity (a > 0)
\* or NaN (a = 0) in JavaScript; both are kept as the value NonFinite.
NonFinite == "NonFinite"

MathCeilDiv(a, b) == IF b = 0 THEN NonFinite ELSE (a + b - 1) \div b

\* Array.prototype.slice(start, end) for 0 <= start <= end: both ends are
\* clipped to the array length.
ArraySlice(arr, start, end) ==
  SubSeq(arr, Min(start, Len(arr)) + 1, Min(end, Len(arr)))

distributeRespondents_floor(respondenten, pdfUrls, pagesCount) ==
  LET totalRespondents == Len(respondenten)
      respondentsPerPdf == totalRespondents \div Len(pdfUrls)
  IN  [k \in 1..Len(pdfUrls) |->
        LET pdfIndex == k - 1
            startIndex == pdfIndex * respondentsPerPdf
            endIndex == startIndex + respondentsPerPdf
            respondentSlice == ArraySlice(respondenten, startIndex, endIndex)
            respondentCodes ==
              [j \in 1..Len(respondentSlice) |-> respondentSlice[j].code]
            respondentDetails ==
              [j \in 1..Len(respondentCodes) |->
                [code |-> respondentCodes[j],
                 annotationPages |->
                   calculateAnnotationPages(j - 1, pagesCount)]]
        IN  [pdfUrl |-> pdfUrls[k],
             pdfIndex |-> pdfIndex,
             respondentsAssigned |-> Len(respondentCodes),
             respondentCodes |-> respondentCodes,
             respondentDetails |-> respondentDetails]]

distributeRespondents_globalIndex(respondenten, pdfUrls, pagesCount) ==
  LET totalRespondents == Len(respondenten)
      respondentsPerPdf == MathCeilDiv(totalRespondents, Len(pdfUrls))
  IN  [k \in 1..Len(pdfUrls) |->
        LET pdfIndex == k - 1
            startIndex == pdfIndex * respondentsPerPdf
            endIndex == startIndex + respondentsPerPdf
            respondentSlice == ArraySlice(respondenten, startIndex, endIndex)
            respondentCodes ==
              [j \in 1..Len(respondentSlice) |-> respondentSlice[j].code]
            respondentDetails ==
              [j \in 1..Len(respondentCodes) |->
                [code |-> respondentCodes[j],
                 annotationPages |->
                   calculateAnnotationPages(startIndex + j - 1, pagesCount)]]
        IN  [pdfUrl |-> pdfUrls[k],
             pdfIndex |-> pdfIndex,
             respondentsAssigned |-> Len(respondentCodes),
             respondentCodes |-> respondentCodes,
             respondentDetails |-> respondentDetails]]

distributeRespondents_remainderToLast(respondenten, pdfUrls, pagesCount) ==
  LET totalRespondents == Len(respondenten)
      respondentsPerPdf == totalRespondents \div Len(pdfUrls)
  IN  [k \in 1..Len(pdfUrls) |->
        LET pdfIndex == k - 1
            startIndex == pdfIndex * respondentsPerPdf
            endIndex == IF k = Len(pdfUrls) THEN totalRespondents
                        ELSE startIndex + respondentsPerPdf
            respondentSlice == ArraySlice(respondenten, startIndex, endIndex)
            respondentCodes ==
              [j \in 1..Len(respondentSlice) |-> respondentSlice[j].code]
            respondentDetails ==
              [j \in 1..Len(respondentCodes) |->
                [code |-> respondentCodes[j],
                 annotationPages |->
                   calculateAnnotationPages(j - 1, pagesCount)]]
        IN  [pdfUrl |-> pdfUrls[k],
             pdfIndex |-> pdfIndex,
             respondentsAssigned |-> Len(respondentCodes),
             respondentCodes |-> respondentCodes,
             respondentDetails |-> respondentDetails]]

distributeRespondents(respondenten, pdfUrls, pagesCount) ==
  LET totalRespondents == Len(respondenten)
      respondentsPerPdf == MathCeilDiv(totalRespondents, Len(pdfUrls))
  IN  [k \in 1..Len(pdfUrls) |->
        LET pdfIndex == k - 1
            startIndex == pdfIndex * respondentsPerPdf
            endIndex == startIndex + respondentsPerPdf
            respondentSlice == ArraySlice(respondenten, startIndex, endIndex)
            respondentCodes ==
              [j \in 1..Len(respondentSlice) |-> respondentSlice[j].code]
            respondentDetails ==
              [j \in 1..Len(respondentCodes) |->
                [code |-> respondentCodes[j],
                 annotationPages |->
                   calculateAnnotationPages(j - 1, pagesCount)]]
        IN  [pdfUrl |-> pdfUrls[k],
             pdfIndex |-> pdfIndex,
             respondentsAssigned |-> Len(respondentCodes),
             respondentCodes |-> respondentCodes,
             respondentDetails |-> respondentDetails]]

---------------------------------------------------------------------------
(* Values of the handler's variables while no request is being handled, *)
(* and of the calculator's variables while a request is being handled.  *)

NoPdfUrls == [kind |-> "undefined", val |-> <<>>]

NoMetadata ==
  [kind |-> "undefined", logoUrl |-> "", pagesCount |-> 0, respondenten |-> <<>>]

NoBody ==
  [kind |-> "missing", pdfUrls |-> NoPdfUrls, annotate |-> "notBoolean",
   metadata |-> NoMetadata]

NoEvent == [httpMethod |-> "none", body |-> NoBody, debug |-> FALSE]

NoResponse == [statusCode |-> 0, body |-> <<>>]

NoBuffer == [url |-> "none", annotated |-> FALSE, pages |-> <<>>, logo |-> FALSE]

NoEnv == [loadFails |-> FALSE, actualPages |-> 0, logoFails |-> FALSE]

NoZip == [files |-> <<>>, length |-> <<0, 0>>]

NoArgs == [i |-> 0, p |-> 0, respondenten |-> <<>>, pdfUrls |-> <<>>]

\* No earlier invocation to compare with: this is the first (or only) run.
NoTwin ==
  [run |-> 1, event |-> NoEvent, distributionPlan |-> <<>>, calls |-> <<>>,
   response |-> NoResponse]

HandlerIdle ==
  /\ event = NoEvent
  /\ pc = "idle"
  /\ distributionPlan = <<>>
  /\ planned = FALSE
  /\ planIdx = 0
  /\ pdfBuffer = NoBuffer
  /\ annotatedPdfBuffers = <<>>
  /\ respondentsPerFile = <<>>
  /\ zipBuffer = NoZip
  /\ calls = <<>>
  /\ response = NoResponse

PlannerIdle ==
  /\ fn = "none"
  /\ args = NoArgs
  /\ result = <<>>

---------------------------------------------------------------------------
(* process-pdf.ts: the requests *)

Respondenten(n) == SeqsUpTo([code : Codes], n)

\* event.body is absent, is text JSON.parse rejects, or parses to an object.
\* A field of the parsed object is either of the validated type (kind "ok")
\* or one of the ways the validation rejects it.
\* The URL lists of the requests: the URLs themselves steer nothing in the
\* handler, so one list of each length is taken.
BatchUrlLists(n) ==
  {[k \in 1..m |-> IF k % 2 = 1 THEN "u1" ELSE "u2"] : m \in 0..n}

PdfUrlsValues ==
  {[kind |-> k, val |-> <<>>] : k \in {"undefined", "notArray", "nonString"}}
    \cup {[kind |-> "ok", val |-> u] : u \in BatchUrlLists(MaxBatchPdfs)}

AnnotateValues == {"true", "false", "notBoolean"}

\* An empty logoUrl is falsy: annotatePdf then attempts no logo download.
LogoUrls == {"", "logo"}

MetadataValues ==
  {[kind |-> k, logoUrl |-> "", pagesCount |-> 0, respondenten |-> <<>>] :
     k \in {"undefined", "badLogoUrl", "badPagesCount",
            "respondentenNotArray", "badRespondent"}}
    \cup [kind : {"ok"},
          logoUrl : LogoUrls,
          pagesCount : 0..MaxBatchPages,
          respondenten : Respondenten(MaxBatchRespondents)]

Events ==
  [httpMethod : {"OPTIONS", "GET"}, body : {NoBody}, debug : {FALSE}]
    \cup [httpMethod : {"POST"},
          body : {NoBody, [NoBody EXCEPT !.kind = "malformed"]},
          debug : BOOLEAN]
    \cup [httpMethod : {"POST"},
          body : [kind : {"json"},
                  pdfUrls : PdfUrlsValues,
                  annotate : AnnotateValues,
                  metadata : MetadataValues],
          debug : BOOLEAN]

---------------------------------------------------------------------------
(* process-pdf.ts: handler *)

Response(statusCode, body) == [statusCode |-> statusCode, body |-> body]

\* The three validation blocks, in the order of the code; "ok" when all pass.
ValidationMessage(body) ==
  IF body.pdfUrls.kind # "ok"
    THEN "Invalid 'pdfUrls': must be an array of strings."
  ELSE IF body.annotate = "notBoolean"
    THEN "Invalid 'annotate': must be a boolean."
  ELSE IF body.metadata.kind # "ok"
    THEN "Invalid 'metadata' object or its properties."
  ELSE "ok"

Parsed == event.httpMethod = "POST" /\ event.body.kind = "json"

Validated == Parsed /\ ValidationMessage(event.body) = "ok"

\* catch (error) of the handler: the generic failure response.
InternalServerError(errorMessage) ==
  Response(500, [message |-> "Internal Server Error", error |-> errorMessage])

\* throw new Error(`Failed to process PDF from ${url}. Reason: ${message}`)
ProcessingError(url, reason) ==
  <<"Failed to process PDF from ", url, ". Reason: ", reason>>

\* A collaborator call: its argument, and once its promise has settled its
\* outcome, the value it resolved with and (annotatePdf) what it met.
Call(f, a) ==
  [fn |-> f, arg |-> a, status |-> "pending", result |-> <<>>, env |-> NoEnv]

Completed(cs, st) == [cs EXCEPT ![Len(cs)].status = st]

Settled(cs, st, res, env) ==
  [cs EXCEPT ![Len(cs)].status = st,
             ![Len(cs)].result = res,
             ![Len(cs)].env = env]

FilesToZip_zeroBased(buffers) ==
  [i \in 1..Len(buffers) |->
    [buffer |-> buffers[i], filename |-> <<"batch_", i - 1, ".pdf">>]]

\* annotatedPdfBuffers.map((buffer, index) => ({buffer,
\* filename: `batch_${index + 1}.pdf`})); i is index + 1.
FilesToZip(buffers) ==
  [i \in 1..Len(buffers) |->
    [buffer |-> buffers[i], filename |-> <<"batch_", i, ".pdf">>]]

\* Byte counts are pairs <<MiB, bytes>> (2 * 1024 * 1024 * 1024 exceeds the
\* integers of the checker): n = MiB * 2^20 + bytes.
TWO_GB == <<2 * 1024, 0>>

GreaterThan_orEqual(a, b) == a[1] > b[1] \/ (a[1] = b[1] /\ a[2] >= b[2])

GreaterThan(a, b) == a[1] > b[1] \/ (a[1] = b[1] /\ a[2] > b[2])

\* parseFloat((length / (1024 * 1024)).toFixed(2)), in hundredths of a MiB.
ZipSizeMB(length) ==
  length[1] * 100 + (length[2] * 200 + 1024 * 1024) \div (2 * 1024 * 1024)

ZipLengths == {<<0, 22>>, TWO_GB, <<2 * 1024, 1>>}

---------------------------------------------------------------------------
(* utils/pdf-annotator.ts: annotatePdf *)

\* The bytes downloadPdf resolves with; their content is known to the
\* program only once PDFDocument.load has parsed them.
DownloadedBuffer(url) ==
  [url |-> url, annotated |-> FALSE, pages |-> <<>>, logo |-> FALSE]

footerContinueText == "Let op: de vragenlijst gaat verder op de achterkant."

footerEndText == "Einde van de vragenlijst. Bedankt voor het invullen."

\* What is drawn on one page for one respondent, in drawing order.
StampOps(code, logoImage, isLastPageOfRespondent) ==
  <<[op |-> "drawText", at |-> "top", text |-> code]>>
    \o (IF logoImage
          THEN <<[op |-> "drawImage", at |-> "top", text |-> "logo"]>>
          ELSE <<>>)
    \o <<[op |-> "drawRectangle", at |-> "footer", text |-> ""],
          [op |-> "drawText", at |-> "footer",
           text |-> IF isLastPageOfRespondent THEN footerEndText
                    ELSE footerContinueText]>>

\* respondentCodes.forEach((code, index) => ...) from index on: pages[pg] is
\* what has been drawn on page index pg - 1; a page index at or beyond
\* actualPages is skipped with a warning.
RECURSIVE DrawRespondents(_, _, _, _, _)
DrawRespondents(pages, respondentCodes, index, pagesPerQuestionnaire, logoImage) ==
  IF index >= Len(respondentCodes) THEN pages
  ELSE LET code == respondentCodes[index + 1]
           pagesToAnnotate ==
             calculateAnnotationPages(index, pagesPerQuestionnaire)
           actualPages == Len(pages)
           drawn ==
             [pg \in 1..actualPages |->
               IF (pg - 1) \in PageSet(pagesToAnnotate)
                 THEN pages[pg] \o
                        StampOps(code, logoImage,
                                 pg - 1 = pagesToAnnotate[Len(pagesToAnnotate)])
                 ELSE pages[pg]]
       IN  DrawRespondents(drawn, respondentCodes, index + 1,
                           pagesPerQuestionnaire, logoImage)

Thrown == [threw |-> TRUE, value |-> NoBuffer]

annotatePdf_logoRequired(buffer, respondentCodes, logoUrl, pagesPerQuestionnaire, env) ==
  IF env.loadFails \/ (logoUrl # "" /\ env.logoFails) THEN Thrown
  ELSE LET logoImage == logoUrl # "" /\ ~env.logoFails
           blank == [pg \in 1..env.actualPages |-> <<>>]
       IN  [threw |-> FALSE,
            value |-> [url |-> buffer.url,
                       annotated |-> TRUE,
                       pages |-> DrawRespondents(blank, respondentCodes, 0,
                                                 pagesPerQuestionnaire, logoImage),
                       logo |-> logoImage]]

annotatePdf_strictPageCount(buffer, respondentCodes, logoUrl, pagesPerQuestionnaire, env) ==
  IF env.loadFails
       \/ env.actualPages
            # getPagesPerRespondentBlock(pagesPerQuestionnaire) * Len(respondentCodes)
    THEN Thrown
  ELSE LET logoImage == logoUrl # "" /\ ~env.logoFails
           blank == [pg \in 1..env.actualPages |-> <<>>]
       IN  [threw |-> FALSE,
            value |-> [url |-> buffer.url,
                       annotated |-> TRUE,
                       pages |-> DrawRespondents(blank, respondentCodes, 0,
                                                 pagesPerQuestionnaire, logoImage),
                       logo |-> logoImage]]

annotatePdf_shiftedIndex(buffer, respondentCodes, logoUrl, pagesPerQuestionnaire, env) ==
  IF env.loadFails THEN Thrown
  ELSE LET logoImage == logoUrl # "" /\ ~env.logoFails
           blank == [pg \in 1..env.actualPages |-> <<>>]
       IN  [threw |-> FALSE,
            value |-> [url |-> buffer.url,
                       annotated |-> TRUE,
                       pages |-> DrawRespondents(blank, <<"">> \o respondentCodes,
                                                 1, pagesPerQuestionnaire, logoImage),
                       logo |-> logoImage]]

\* env is what the call meets: whether PDFDocument.load rejects the bytes,
\* the page count of the loaded document, and whether the download or the
\* embedding of the logo throws.  The result is the thrown error or the
\* saved document.
annotatePdf(buffer, respondentCodes, logoUrl, pagesPerQuestionnaire, env) ==
  IF env.loadFails THEN Thrown
  ELSE LET logoImage == logoUrl # "" /\ ~env.logoFails
           blank == [pg \in 1..env.actualPages |-> <<>>]
       IN  [threw |-> FALSE,
            value |-> [url |-> buffer.url,
                       annotated |-> TRUE,
                       pages |-> DrawRespondents(blank, respondentCodes, 0,
                                                 pagesPerQuestionnaire, logoImage),
                       logo |-> logoImage]]

\* The page counts a loaded document is given in a batch run: the count the
\* plan implies, and two pages fewer (the last planned pages are missing).
LoadedPageCounts(expectedPages) ==
  {Max(0, expectedPages - 2), expectedPages}

AnnotateEnvs(respondentCodes, logoUrl, pagesPerQuestionnaire) ==
  {[loadFails |-> TRUE, actualPages |-> 0, logoFails |-> FALSE]}
    \cup [loadFails : {FALSE},
          actualPages :
            LoadedPageCounts(getPagesPerRespondentBlock(pagesPerQuestionnaire)
                               * Len(respondentCodes)),
          logoFails : IF logoUrl = "" THEN {FALSE} ELSE BOOLEAN]

---------------------------------------------------------------------------
(* process-pdf.ts: handler, continued *)

\* The head of the for..of loop: the next planItem's download is started,
\* or the loop is left and createZip is called with filesToZip.
LoopHead_prefetch(plan, idx, buffers, cs) ==
  IF idx <= Len(plan)
    THEN [pc |-> "download", planIdx |-> idx,
          calls |-> cs \o (IF idx < Len(plan)
                             THEN <<Call("downloadPdf", plan[idx + 1].pdfUrl)>>
                             ELSE <<>>)
                       \o <<Call("downloadPdf", plan[idx].pdfUrl)>>]
    ELSE [pc |-> "zip", planIdx |-> idx,
          calls |-> Append(cs, Call("createZip", FilesToZip(buffers)))]

\* The head of the for-loop over the plan: the next entry's download is
\* awaited, or, the plan exhausted, createZip is.
LoopHead(plan, idx, buffers, cs) ==
  IF idx <= Len(plan)
    THEN [pc |-> "download", planIdx |-> idx,
          calls |-> Append(cs, Call("downloadPdf", plan[idx].pdfUrl))]
    ELSE [pc |-> "zip", planIdx |-> idx,
          calls |-> Append(cs, Call("createZip", FilesToZip(buffers)))]

Return(resp) ==
  /\ response' = resp
  /\ pc' = "done"

Preflight ==
  /\ pc = "start"
  /\ event.httpMethod = "OPTIONS"
  /\ Return(Response(204, <<>>))
  /\ UNCHANGED <<event, distributionPlan, planned, planIdx, pdfBuffer,
                 annotatedPdfBuffers, respondentsPerFile, zipBuffer, calls,
                 plannerVars, twin>>

MethodNotAllowed ==
  /\ pc = "start"
  /\ event.httpMethod \notin {"OPTIONS", "POST"}
  /\ Return(Response(405, [message |-> "Method Not Allowed"]))
  /\ UNCHANGED <<event, distributionPlan, planned, planIdx, pdfBuffer,
                 annotatedPdfBuffers, respondentsPerFile, zipBuffer, calls,
                 plannerVars, twin>>

BodyMissing ==
  /\ pc = "start"
  /\ event.httpMethod = "POST"
  /\ event.body.kind = "missing"
  /\ Return(Response(400, [message |-> "Request body is missing."]))
  /\ UNCHANGED <<event, distributionPlan, planned, planIdx, pdfBuffer,
                 annotatedPdfBuffers, respondentsPerFile, zipBuffer, calls,
                 plannerVars, twin>>

\* JSON.parse throws inside the try block.
BodyMalformed ==
  /\ pc = "start"
  /\ event.httpMethod = "POST"
  /\ event.body.kind = "malformed"
  /\ Return(InternalServerError("Unexpected token in JSON"))
  /\ UNCHANGED <<event, distributionPlan, planned, planIdx, pdfBuffer,
                 annotatedPdfBuffers, respondentsPerFile, zipBuffer, calls,
                 plannerVars, twin>>

ValidationFailure_afterPlanning ==
  /\ pc = "start"
  /\ Parsed
  /\ ValidationMessage(event.body) # "ok"
  /\ planned' = TRUE
  /\ Return(Response(400, [message |-> ValidationMessage(event.body)]))
  /\ UNCHANGED <<event, distributionPlan, planIdx, pdfBuffer,
                 annotatedPdfBuffers, respondentsPerFile, zipBuffer, calls,
                 plannerVars, twin>>

ValidationFailure ==
  /\ pc = "start"
  /\ Parsed
  /\ ValidationMessage(event.body) # "ok"
  /\ Return(Response(400, [message |-> ValidationMessage(event.body)]))
  /\ UNCHANGED <<event, distributionPlan, planned, planIdx, pdfBuffer,
                 annotatedPdfBuffers, respondentsPerFile, zipBuffer, calls,
                 plannerVars, twin>>

\* JSON.stringify writes a non-finite number as null.
DebugBody(plan) ==
  LET pdfUrls == event.body.pdfUrls.val
      metadata == event.body.metadata
  IN  [debug |-> TRUE,
       totalRespondents |-> Len(metadata.respondenten),
       respondentsPerPdf |->
         IF Len(pdfUrls) = 0 THEN "null"
         ELSE MathCeilDiv(Len(metadata.respondenten), Len(pdfUrls)),
       pagesPerQuestionnaire |-> metadata.pagesCount,
       pagesPerRespondentBlock |->
         getPagesPerRespondentBlock(metadata.pagesCount),
       plan |-> plan]

DebugRun_ownPlan ==
  /\ pc = "start"
  /\ Validated
  /\ event.debug
  /\ LET pdfUrls == event.body.pdfUrls.val
         metadata == event.body.metadata
         plan == distributeRespondents(metadata.respondenten, pdfUrls,
                                       metadata.pagesCount)
         debugPlan ==
           IF Len(pdfUrls) = 0 THEN <<>>
           ELSE distributeRespondents_floor(metadata.respondenten, pdfUrls,
                                            metadata.pagesCount)
     IN  /\ distributionPlan' = plan
         /\ planned' = TRUE
         /\ Return(Response(200, DebugBody(debugPlan)))
  /\ UNCHANGED <<event, planIdx, pdfBuffer, annotatedPdfBuffers,
                 respondentsPerFile, zipBuffer, calls, plannerVars, twin>>

DebugRun ==
  /\ pc = "start"
  /\ Validated
  /\ event.debug
  /\ LET pdfUrls == event.body.pdfUrls.val
         metadata == event.body.metadata
         plan == distributeRespondents(metadata.respondenten, pdfUrls,
                                       metadata.pagesCount)
     IN  /\ distributionPlan' = plan
         /\ planned' = TRUE
         /\ Return(Response(200, DebugBody(plan)))
  /\ UNCHANGED <<event, planIdx, pdfBuffer, annotatedPdfBuffers,
                 respondentsPerFile, zipBuffer, calls, plannerVars, twin>>

\* The handler up to its first await: the plan is made and the loop entered.
LiveStart ==
  /\ pc = "start"
  /\ Validated
  /\ ~event.debug
  /\ LET pdfUrls == event.body.pdfUrls.val
         metadata == event.body.metadata
         plan == distributeRespondents(metadata.respondenten, pdfUrls,
                                       metadata.pagesCount)
         head == LoopHead(plan, 1, <<>>, <<>>)
     IN  /\ distributionPlan' = plan
         /\ planned' = TRUE
         /\ pc' = head.pc
         /\ planIdx' = head.planIdx
         /\ calls' = head.calls
  /\ UNCHANGED <<event, pdfBuffer, annotatedPdfBuffers, respondentsPerFile,
                 zipBuffer, response, plannerVars, twin>>

DownloadOk_alwaysAnnotate ==
  /\ pc = "download"
  /\ LET planItem == distributionPlan[planIdx]
         buffer == DownloadedBuffer(planItem.pdfUrl)
         respondentCodes == planItem.respondentCodes
         done == Settled(calls, "ok", buffer, NoEnv)
     IN  /\ pdfBuffer' = buffer
         /\ respondentsPerFile' = Append(respondentsPerFile, Len(respondentCodes))
         /\ pc' = "annotate"
         /\ calls' = Append(done,
              Call("annotatePdf",
                   [pdfBuffer |-> buffer,
                    respondentCodes |-> respondentCodes,
                    logoUrl |-> event.body.metadata.logoUrl,
                    pagesCount |-> event.body.metadata.pagesCount]))
         /\ UNCHANGED <<planIdx, annotatedPdfBuffers>>
  /\ UNCHANGED <<event, distributionPlan, planned, zipBuffer, response,
                 plannerVars, twin>>

DownloadOk_honoursAnnotate ==
  /\ pc = "download"
  /\ LET planItem == distributionPlan[planIdx]
         buffer == DownloadedBuffer(planItem.pdfUrl)
         respondentCodes == planItem.respondentCodes
         done == Settled(calls, "ok", buffer, NoEnv)
     IN  /\ pdfBuffer' = buffer
         /\ respondentsPerFile' = Append(respondentsPerFile, Len(respondentCodes))
         /\ IF Len(respondentCodes) > 0 /\ event.body.annotate = "true"
              THEN /\ pc' = "annotate"
                   /\ calls' = Append(done,
                        Call("annotatePdf",
                             [pdfBuffer |-> buffer,
                              respondentCodes |-> respondentCodes,
                              logoUrl |-> event.body.metadata.logoUrl,
                              pagesCount |-> event.body.metadata.pagesCount]))
                   /\ UNCHANGED <<planIdx, annotatedPdfBuffers>>
              ELSE LET buffers == Append(annotatedPdfBuffers, buffer)
                       head == LoopHead(distributionPlan, planIdx + 1,
                                        buffers, done)
                   IN  /\ annotatedPdfBuffers' = buffers
                       /\ pc' = head.pc
                       /\ planIdx' = head.planIdx
                       /\ calls' = head.calls
  /\ UNCHANGED <<event, distributionPlan, planned, zipBuffer, response,
                 plannerVars, twin>>

\* downloadPdf resolves; an empty slice passes the bytes through and the
\* loop goes on, a non-empty slice calls annotatePdf.
DownloadOk ==
  /\ pc = "download"
  /\ LET planItem == distributionPlan[planIdx]
         buffer == DownloadedBuffer(planItem.pdfUrl)
         respondentCodes == planItem.respondentCodes
         done == Settled(calls, "ok", buffer, NoEnv)
     IN  /\ pdfBuffer' = buffer
         /\ respondentsPerFile' = Append(respondentsPerFile, Len(respondentCodes))
         /\ IF Len(respondentCodes) > 0
              THEN /\ pc' = "annotate"
                   /\ calls' = Append(done,
                        Call("annotatePdf",
                             [pdfBuffer |-> buffer,
                              respondentCodes |-> respondentCodes,
                              logoUrl |-> event.body.metadata.logoUrl,
                              pagesCount |-> event.body.metadata.pagesCount]))
                   /\ UNCHANGED <<planIdx, annotatedPdfBuffers>>
              ELSE LET buffers == Append(annotatedPdfBuffers, buffer)
                       head == LoopHead(distributionPlan, planIdx + 1,
                                        buffers, done)
                   IN  /\ annotatedPdfBuffers' = buffers
                       /\ pc' = head.pc
                       /\ planIdx' = head.planIdx
                       /\ calls' = head.calls
  /\ UNCHANGED <<event, distributionPlan, planned, zipBuffer, response,
                 plannerVars, twin>>

DownloadFail_bestEffort ==
  /\ pc = "download"
  /\ LET head == LoopHead(distributionPlan, planIdx + 1, annotatedPdfBuffers,
                          Completed(calls, "failed"))
     IN  /\ pc' = head.pc
         /\ planIdx' = head.planIdx
         /\ calls' = head.calls
  /\ UNCHANGED <<event, distributionPlan, planned, pdfBuffer,
                 annotatedPdfBuffers, respondentsPerFile, zipBuffer, response,
                 plannerVars, twin>>

\* downloadPdf rejects: the inner catch rethrows, the outer catch answers.
DownloadFail ==
  /\ pc = "download"
  /\ calls' = Completed(calls, "failed")
  /\ Return(InternalServerError(
       ProcessingError(distributionPlan[planIdx].pdfUrl, "download failed")))
  /\ UNCHANGED <<event, distributionPlan, planned, planIdx, pdfBuffer,
                 annotatedPdfBuffers, respondentsPerFile, zipBuffer,
                 plannerVars, twin>>

AnnotateOk ==
  /\ pc = "annotate"
  /\ LET planItem == distributionPlan[planIdx]
         logoUrl == event.body.metadata.logoUrl
         pagesCount == event.body.metadata.pagesCount
     IN  \E env \in AnnotateEnvs(planItem.respondentCodes, logoUrl, pagesCount) :
           LET outcome == annotatePdf(pdfBuffer, planItem.respondentCodes,
                                      logoUrl, pagesCount, env)
               annotatedBuffer == outcome.value
               buffers == Append(annotatedPdfBuffers, annotatedBuffer)
               head == LoopHead(distributionPlan, planIdx + 1, buffers,
                                Settled(calls, "ok", annotatedBuffer, env))
           IN  /\ ~outcome.threw
               /\ annotatedPdfBuffers' = buffers
               /\ pc' = head.pc
               /\ planIdx' = head.planIdx
               /\ calls' = head.calls
  /\ UNCHANGED <<event, distributionPlan, planned, pdfBuffer,
                 respondentsPerFile, zipBuffer, response, plannerVars, twin>>

AnnotateFail_passThrough ==
  /\ pc = "annotate"
  /\ LET planItem == distributionPlan[planIdx]
         logoUrl == event.body.metadata.logoUrl
         pagesCount == event.body.metadata.pagesCount
     IN  \E env \in AnnotateEnvs(planItem.respondentCodes, logoUrl, pagesCount) :
           LET buffers == Append(annotatedPdfBuffers, pdfBuffer)
               head == LoopHead(distributionPlan, planIdx + 1, buffers,
                                Settled(calls, "failed", <<>>, env))
           IN  /\ annotatePdf(pdfBuffer, planItem.respondentCodes, logoUrl,
                              pagesCount, env).threw
               /\ annotatedPdfBuffers' = buffers
               /\ pc' = head.pc
               /\ planIdx' = head.planIdx
               /\ calls' = head.calls
  /\ UNCHANGED <<event, distributionPlan, planned, pdfBuffer,
                 respondentsPerFile, zipBuffer, response, plannerVars, twin>>

\* annotatePdf rejects: the inner catch rethrows, the outer catch answers.
AnnotateFail ==
  /\ pc = "annotate"
  /\ LET planItem == distributionPlan[planIdx]
         logoUrl == event.body.metadata.logoUrl
         pagesCount == event.body.metadata.pagesCount
     IN  \E env \in AnnotateEnvs(planItem.respondentCodes, logoUrl, pagesCount) :
           /\ annotatePdf(pdfBuffer, planItem.respondentCodes, logoUrl,
                          pagesCount, env).threw
           /\ calls' = Settled(calls, "failed", <<>>, env)
  /\ Return(InternalServerError(
       ProcessingError(distributionPlan[planIdx].pdfUrl, "annotation failed")))
  /\ UNCHANGED <<event, distributionPlan, planned, planIdx, pdfBuffer,
                 annotatedPdfBuffers, respondentsPerFile, zipBuffer,
                 plannerVars, twin>>

\* createZip resolves with an archive within the limit: upload is called.
ZipOk ==
  /\ pc = "zip"
  /\ \E length \in ZipLengths :
       LET zip == [files |-> FilesToZip(annotatedPdfBuffers), length |-> length]
       IN  /\ ~GreaterThan(length, TWO_GB)
           /\ zipBuffer' = zip
           /\ calls' = Append(Settled(calls, "ok", zip, NoEnv),
                              Call("uploadToFileIo",
                                   [zipBuffer |-> zip,
                                    filename |-> "respondenten_<today>.zip"]))
           /\ pc' = "upload"
  /\ UNCHANGED <<event, distributionPlan, planned, planIdx, pdfBuffer,
                 annotatedPdfBuffers, respondentsPerFile, response,
                 plannerVars, twin>>

ZipTooLarge ==
  /\ pc = "zip"
  /\ \E length \in ZipLengths :
       LET zip == [files |-> FilesToZip(annotatedPdfBuffers), length |-> length]
       IN  /\ GreaterThan(length, TWO_GB)
           /\ zipBuffer' = zip
           /\ calls' = Settled(calls, "ok", zip, NoEnv)
           /\ Return(Response(413,
                [message |-> "Generated ZIP file is too large to upload."]))
  /\ UNCHANGED <<event, distributionPlan, planned, planIdx, pdfBuffer,
                 annotatedPdfBuffers, respondentsPerFile, plannerVars, twin>>

\* createZip rejects: the outer catch answers.
ZipFail ==
  /\ pc = "zip"
  /\ calls' = Completed(calls, "failed")
  /\ Return(InternalServerError("archive error"))
  /\ UNCHANGED <<event, distributionPlan, planned, planIdx, pdfBuffer,
                 annotatedPdfBuffers, respondentsPerFile, zipBuffer,
                 plannerVars, twin>>

UploadOk ==
  /\ pc = "upload"
  /\ calls' = Completed(calls, "ok")
  /\ Return(Response(200,
       [status |-> "success",
        fileIoUrl |-> "https://file.io/link",
        expires |-> "expiry",
        respondentCount |-> Len(event.body.metadata.respondenten),
        filesInZip |-> Len(annotatedPdfBuffers),
        respondentsPerFile |-> respondentsPerFile,
        zipSizeMB |-> ZipSizeMB(zipBuffer.length)]))
  /\ UNCHANGED <<event, distributionPlan, planned, planIdx, pdfBuffer,
                 annotatedPdfBuffers, respondentsPerFile, zipBuffer,
                 plannerVars, twin>>

UploadFail ==
  /\ pc = "upload"
  /\ calls' = Completed(calls, "failed")
  /\ Return(Response(500,
       [message |-> "Failed to upload ZIP file to file.io.",
        error |-> "upload failed",
        zipSize |-> zipBuffer.length]))
  /\ UNCHANGED <<event, distributionPlan, planned, planIdx, pdfBuffer,
                 annotatedPdfBuffers, respondentsPerFile, zipBuffer,
                 plannerVars, twin>>

Init ==
  /\ event \in Events
  /\ pc = "start"
  /\ distributionPlan = <<>>
  /\ planned = FALSE
  /\ planIdx = 0
  /\ pdfBuffer = NoBuffer
  /\ annotatedPdfBuffers = <<>>
  /\ respondentsPerFile = <<>>
  /\ zipBuffer = NoZip
  /\ calls = <<>>
  /\ response = NoResponse
  /\ PlannerIdle
  /\ twin = NoTwin

Next ==
  \/ Preflight
  \/ MethodNotAllowed
  \/ BodyMissing
  \/ BodyMalformed
  \/ ValidationFailure
  \/ DebugRun
  \/ LiveStart
  \/ DownloadOk
  \/ DownloadFail
  \/ AnnotateOk
  \/ AnnotateFail
  \/ ZipOk
  \/ ZipTooLarge
  \/ ZipFail
  \/ UploadOk
  \/ UploadFail

Spec == Init /\ [][Next]_vars

---------------------------------------------------------------------------
(* process-pdf.ts: two invocations of the handler, one after the other,   *)
(* on requests that differ in the annotate flag only, the collaborators   *)
(* behaving the same way in both                                          *)

PairRequest(e) ==
  /\ Len(e.body.pdfUrls.val) <= MaxPairPdfs
  /\ Len(e.body.metadata.respondenten) <= MaxPairRespondents
  /\ e.body.metadata.pagesCount <= MaxPairPages

InitPair ==
  /\ Init
  /\ PairRequest(event)

\* The finished invocation of a request with annotate true is kept and the
\* handler is invoked again with the same request, annotate false.
Resubmit ==
  /\ twin.run = 1
  /\ pc = "done"
  /\ Validated
  /\ event.body.annotate = "true"
  /\ twin' = [run |-> 2, event |-> event,
              distributionPlan |-> distributionPlan, calls |-> calls,
              response |-> response]
  /\ event' = [event EXCEPT !.body.annotate = "false"]
  /\ pc' = "start"
  /\ distributionPlan' = <<>>
  /\ planned' = FALSE
  /\ planIdx' = 0
  /\ pdfBuffer' = NoBuffer
  /\ annotatedPdfBuffers' = <<>>
  /\ respondentsPerFile' = <<>>
  /\ zipBuffer' = NoZip
  /\ calls' = <<>>
  /\ response' = NoResponse
  /\ UNCHANGED plannerVars

\* In the second invocation a collaborator called with what it was called
\* with in the first one settles as it did then.
Replays ==
  twin.run = 2 =>
    \A c \in 1..Min(Len(calls), Len(twin.calls)) :
      (/\ calls[c].status # "pending"
       /\ calls[c].fn = twin.calls[c].fn
       /\ calls[c].arg = twin.calls[c].arg) =>
        /\ calls[c].status = twin.calls[c].status
        /\ calls[c].env = twin.calls[c].env
        /\ calls[c].status = "ok" => calls[c].result = twin.calls[c].result

HandlerStep ==
  /\ Next
  /\ Replays'

NextPair ==
  \/ HandlerStep
  \/ Resubmit

SpecPair == InitPair /\ [][NextPair]_vars

---------------------------------------------------------------------------
(* The planner functions applied to inputs drawn from bounded sets *)

PlannerArgs ==
  [i : 0..MaxIndex,
   p : 0..MaxPages,
   respondenten : Respondenten(MaxRespondents),
   pdfUrls : SeqsUpTo(Urls, MaxPdfs)]

InitPlanner ==
  /\ HandlerIdle
  /\ twin = NoTwin
  /\ fn = "none"
  /\ args \in PlannerArgs
  /\ result = <<>>

CallGetPagesPerRespondentBlock ==
  /\ fn' = "getPagesPerRespondentBlock"
  /\ result' = getPagesPerRespondentBlock(args.p)
  /\ UNCHANGED <<args, handlerVars, twin>>

CallCalculateAnnotationPages ==
  /\ fn' = "calculateAnnotationPages"
  /\ result' = calculateAnnotationPages(args.i, args.p)
  /\ UNCHANGED <<args, handlerVars, twin>>

CallDistributeRespondents ==
  /\ fn' = "distributeRespondents"
  /\ result' = distributeRespondents(args.respondenten, args.pdfUrls, args.p)
  /\ UNCHANGED <<args, handlerVars, twin>>

NextPlanner ==
  \/ CallGetPagesPerRespondentBlock
  \/ CallCalculateAnnotationPages
  \/ CallDistributeRespondents

SpecPlanner == InitPlanner /\ [][NextPlanner]_vars

---------------------------------------------------------------------------
(* annotatePdf applied to inputs drawn from bounded sets *)

AnnotatorArgs ==
  [respondentCodes : SeqsUpTo(Codes, MaxSliceRespondents),
   logoUrl : LogoUrls,
   p : 0..MaxPages,
   env : [loadFails : BOOLEAN,
          actualPages : 0..MaxDocPages,
          logoFails : BOOLEAN]]

InitAnnotator ==
  /\ HandlerIdle
  /\ twin = NoTwin
  /\ fn = "none"
  /\ args \in AnnotatorArgs
  /\ result = <<>>

CallAnnotatePdf ==
  /\ fn = "none"
  /\ fn' = "annotatePdf"
  /\ result' = annotatePdf(DownloadedBuffer("u1"), args.respondentCodes,
                           args.logoUrl, args.p, args.env)
  /\ UNCHANGED <<args, handlerVars, twin>>

NextAnnotator == CallAnnotatePdf

SpecAnnotator == InitAnnotator /\ [][NextAnnotator]_vars

---------------------------------------------------------------------------
(* Properties of the planner functions (checked under SpecPlanner) *)

RECURSIVE ConcatCodes(_)
ConcatCodes(plan) ==
  IF Len(plan) = 0 THEN <<>>
  ELSE ConcatCodes(SubSeq(plan, 1, Len(plan) - 1))
         \o plan[Len(plan)].respondentCodes

CodesOf(respondenten) ==
  [j \in 1..Len(respondenten) |-> respondenten[j].code]

\* ceil(a / b) for b >= 1, stated without the arithmetic of MathCeilDiv:
\* the least q with q * b >= a.
CeilOf(a, b) == CHOOSE q \in 0..a : q * b >= a /\ \A r \in 0..a : r * b >= a => q <= r

Distributed == fn = "distributeRespondents" /\ Len(args.pdfUrls) >= 1

\* C1: for every respondent list R and every PDF-URL list of length n >= 1,
\* distributeRespondents returns exactly n entries with pdfIndex 0..n-1 in
\* order, and the entries' respondentCodes concatenated in pdfIndex order are
\* the codes of R: same order, none duplicated, none lost.
C1_DistributionReproducesRespondents ==
  Distributed =>
    /\ Len(result) = Len(args.pdfUrls)
    /\ \A k \in 1..Len(result) :
         /\ result[k].pdfIndex = k - 1
         /\ result[k].pdfUrl = args.pdfUrls[k]
    /\ ConcatCodes(result) = CodesOf(args.respondenten)

C1_Witness ==
  /\ Distributed
  /\ Len(args.respondenten) = 5
  /\ Len(args.pdfUrls) = 2
  /\ Len(result[1].respondentCodes) = 3
  /\ Len(result[2].respondentCodes) = 2
  /\ ConcatCodes(result) = CodesOf(args.respondenten)

\* C2: in every plan entry the j-th respondent of the slice (j from 0 inside
\* the slice) carries calculateAnnotationPages(j, pagesCount); the position
\* in the full list is not used, so the pages restart in every PDF.
C2_LocalIndexPerPdf ==
  Distributed =>
    \A k \in 1..Len(result) :
      /\ Len(result[k].respondentDetails) = Len(result[k].respondentCodes)
      /\ \A j \in 1..Len(result[k].respondentDetails) :
           /\ result[k].respondentDetails[j].code = result[k].respondentCodes[j]
           /\ result[k].respondentDetails[j].annotationPages
                = calculateAnnotationPages(j - 1, args.p)

C2_Witness ==
  /\ Distributed
  /\ Len(args.respondenten) = 5
  /\ Len(args.pdfUrls) = 2
  /\ args.p = 4
  /\ result[2].respondentDetails[1].annotationPages = <<2, 3, 4, 5>>
  /\ result[2].respondentDetails[2].annotationPages = <<8, 9, 10, 11>>

\* C3: calculateAnnotationPages(i, p) has exactly p elements, starts at
\* i * getPagesPerRespondentBlock(p) + 2 and each element is the previous one
\* plus 1; for p = 0 it is the empty sequence.
C3_AnnotationPagesShape ==
  fn = "calculateAnnotationPages" =>
    /\ Len(result) = args.p
    /\ args.p = 0 => result = <<>>
    /\ args.p >= 1 =>
         result[1] = args.i * getPagesPerRespondentBlock(args.p) + 2
    /\ \A m \in 2..Len(result) : result[m] = result[m - 1] + 1

C3_Witness ==
  /\ fn = "calculateAnnotationPages"
  /\ args.i = 1
  /\ args.p = 4
  /\ result = <<8, 9, 10, 11>>

\* C4: getPagesPerRespondentBlock(p) is p + 2 for even p and p + 3 for odd
\* p, hence always even and at least 2.
C4_BlockSizeParity ==
  fn = "getPagesPerRespondentBlock" =>
    /\ result = IF args.p % 2 = 0 THEN args.p + 2 ELSE args.p + 3
    /\ result % 2 = 0
    /\ result >= 2

C4_Witness ==
  /\ fn = "getPagesPerRespondentBlock"
  /\ args.p = 3
  /\ result = 6

\* C5: within one PDF the pages of respondent i lie inside i's own block
\* [i*B + 2, (i+1)*B - 1], B = getPagesPerRespondentBlock(p); the page sets
\* of two different respondents are disjoint; block i+1 starts right after
\* block i ends.
C5_BlocksDisjointContiguous ==
  fn = "calculateAnnotationPages" =>
    LET B == getPagesPerRespondentBlock(args.p)
    IN  /\ \A pg \in PageSet(result) :
             /\ args.i * B + 2 <= pg
             /\ pg <= (args.i + 1) * B - 1
        /\ \A j \in 0..(MaxIndex + 1) :
             j # args.i =>
               PageSet(result)
                 \cap PageSet(calculateAnnotationPages(j, args.p)) = {}
        /\ args.p >= 1 =>
             calculateAnnotationPages(args.i + 1, args.p)[1] - 2
               = (result[1] - 2) + B

C5_Witness ==
  /\ fn = "calculateAnnotationPages"
  /\ args.i = 2
  /\ args.p = 3
  /\ result = <<14, 15, 16>>

\* C6: with perPdf = ceil(|R| / n), entry k holds exactly
\* min(perPdf, max(0, |R| - k*perPdf)) codes: never more than perPdf, never
\* increasing with pdfIndex, and empty after the first short entry; entries
\* without respondents stay in the plan with respondentCodes = [] and
\* respondentDetails = [].
C6_SliceSizes ==
  Distributed =>
    LET total == Len(args.respondenten)
        perPdf == CeilOf(total, Len(args.pdfUrls))
        size(k) == Len(result[k].respondentCodes)
    IN  /\ Len(result) = Len(args.pdfUrls)
        /\ \A k \in 1..Len(result) :
             /\ size(k) = Min(perPdf, Max(0, total - (k - 1) * perPdf))
             /\ size(k) <= perPdf
             /\ result[k].respondentsAssigned = size(k)
             /\ size(k) = 0 =>
                  /\ result[k].respondentCodes = <<>>
                  /\ result[k].respondentDetails = <<>>
             /\ \A m \in (k + 1)..Len(result) :
                  /\ size(m) <= size(k)
                  /\ size(k) < perPdf => size(m) = 0

C6_Witness ==
  /\ Distributed
  /\ Len(args.respondenten) = 2
  /\ Len(args.pdfUrls) = 3
  /\ Len(result) = 3
  /\ Len(result[1].respondentCodes) = 1
  /\ Len(result[2].respondentCodes) = 1
  /\ result[3].respondentCodes = <<>>
  /\ result[3].respondentDetails = <<>>

---------------------------------------------------------------------------
(* Properties of the handler (checked under Spec) *)

CallsOf(fns) == {c \in 1..Len(calls) : calls[c].fn \in fns}

\* C7: in the live path, when the download or the annotation of plan entry
\* k fails, nothing is started afterwards (no download or annotation of a
\* later entry, no packaging, no upload) and the handler returns one 500
\* response without a partial result (no URL, no file list).
C7_FailureAbortsBatch ==
  \A c \in CallsOf({"downloadPdf", "annotatePdf"}) :
    calls[c].status = "failed" =>
      /\ c = Len(calls)
      /\ CallsOf({"createZip", "uploadToFileIo"}) = {}
      /\ Cardinality(CallsOf({"downloadPdf"})) = planIdx
      /\ pc = "done"
      /\ response.statusCode = 500
      /\ DOMAIN response.body = {"message", "error"}

C7_Witness ==
  /\ pc = "done"
  /\ Len(distributionPlan) = 3
  /\ planIdx = 2
  /\ calls[Len(calls)].status = "failed"
  /\ calls[Len(calls)].fn = "annotatePdf"
  /\ Len(annotatedPdfBuffers) = 1
  /\ response.statusCode = 500

\* C8: when the handler answers 400 (missing body, invalid pdfUrls, invalid
\* annotate, invalid metadata) it has not run the distributor and has
\* invoked no collaborator.
C8_ValidationBeforePlanning ==
  (pc = "done" /\ response.statusCode = 400) =>
    /\ ~planned
    /\ distributionPlan = <<>>
    /\ calls = <<>>

C8_Witness ==
  /\ pc = "done"
  /\ response.statusCode = 400
  /\ Parsed
  /\ event.body.pdfUrls.kind = "ok"
  /\ Len(event.body.pdfUrls.val) = 2
  /\ event.body.annotate = "true"
  /\ event.body.metadata.kind = "badPagesCount"
  /\ ~planned

EmptyPdfUrls ==
  /\ Parsed
  /\ event.body.pdfUrls.kind = "ok"
  /\ event.body.pdfUrls.val = <<>>

\* C9: a POST request whose pdfUrls is an empty array is rejected with a 400
\* response before the distributor runs, and nothing is packaged or
\* uploaded.
C9_EmptyPdfUrlsRejected ==
  (EmptyPdfUrls /\ pc # "start") =>
    /\ pc = "done"
    /\ response.statusCode = 400
    /\ ~planned
    /\ CallsOf({"createZip", "uploadToFileIo"}) = {}

PlanOfRequest ==
  distributeRespondents(event.body.metadata.respondenten,
                        event.body.pdfUrls.val,
                        event.body.metadata.pagesCount)

\* C10: a valid POST request with debug=true is answered 200 with the plan
\* and no collaborator is invoked; the plan returned is, entry for entry,
\* the plan the live path iterates over for the same request body.
C10_DebugPlanIsLivePlan ==
  /\ (Validated /\ event.debug /\ pc = "done") =>
       /\ response.statusCode = 200
       /\ response.body.debug
       /\ response.body.plan = PlanOfRequest
       /\ calls = <<>>
  /\ (Validated /\ ~event.debug /\ pc # "start") =>
       /\ distributionPlan = PlanOfRequest
       /\ \A c \in 1..Len(calls) :
            /\ calls[c].fn = "downloadPdf" =>
                 \E k \in 1..planIdx :
                   /\ calls[c].arg = PlanOfRequest[k].pdfUrl
                   /\ Cardinality({d \in CallsOf({"downloadPdf"}) : d <= c}) = k
            /\ calls[c].fn = "annotatePdf" =>
                 \E k \in 1..planIdx :
                   /\ calls[c].arg.respondentCodes
                        = PlanOfRequest[k].respondentCodes
                   /\ Cardinality({d \in CallsOf({"downloadPdf"}) : d <= c}) = k

C10_Witness ==
  /\ Validated
  /\ event.debug
  /\ pc = "done"
  /\ response.statusCode = 200
  /\ Len(event.body.metadata.respondenten) = 3
  /\ Len(response.body.plan) = 2
  /\ Len(response.body.plan[1].respondentCodes) = 2
  /\ Len(response.body.plan[2].respondentCodes) = 1
  /\ calls = <<>>

---------------------------------------------------------------------------
(* Properties of the per-PDF loop (checked under Spec) *)

\* The position in calls of the download of plan entry k (k from 1).
DownloadPos(k) ==
  CHOOSE c \in CallsOf({"downloadPdf"}) :
    Cardinality({d \in CallsOf({"downloadPdf"}) : d <= c}) = k

\* The annotatePdf calls made in the iteration of plan entry k.
AnnotateCallsFor(k) ==
  {c \in CallsOf({"annotatePdf"}) :
     Cardinality({d \in CallsOf({"downloadPdf"}) : d < c}) = k}

\* C11: in the live path an entry with empty respondentCodes gets no
\* annotatePdf call and its collected blob is the downloaded bytes; an entry
\* with respondents gets exactly one annotatePdf call and its collected blob
\* is that call's result.
C11_AnnotateOnlyNonEmpty ==
  /\ \A k \in 1..Len(distributionPlan) :
       /\ Cardinality(AnnotateCallsFor(k)) <= 1
       /\ distributionPlan[k].respondentCodes = <<>> => AnnotateCallsFor(k) = {}
  /\ \A k \in 1..Len(annotatedPdfBuffers) :
       IF distributionPlan[k].respondentCodes = <<>>
         THEN /\ annotatedPdfBuffers[k] = calls[DownloadPos(k)].result
              /\ annotatedPdfBuffers[k]
                   = DownloadedBuffer(distributionPlan[k].pdfUrl)
         ELSE \E c \in AnnotateCallsFor(k) :
                /\ calls[c].status = "ok"
                /\ calls[c].arg.pdfBuffer = calls[DownloadPos(k)].result
                /\ annotatedPdfBuffers[k] = calls[c].result
                /\ annotatedPdfBuffers[k].annotated

C11_Witness ==
  /\ pc = "upload"
  /\ Len(distributionPlan) = 3
  /\ Len(annotatedPdfBuffers) = 3
  /\ annotatedPdfBuffers[1].annotated
  /\ annotatedPdfBuffers[2].annotated
  /\ ~annotatedPdfBuffers[3].annotated
  /\ Cardinality(CallsOf({"annotatePdf"})) = 2

\* The respondent codes stamped on a page, in drawing order.
RECURSIVE StampedCodes(_)
StampedCodes(ops) ==
  IF ops = <<>> THEN <<>>
  ELSE (IF Head(ops).op = "drawText" /\ Head(ops).at = "top"
          THEN <<Head(ops).text>> ELSE <<>>)
         \o StampedCodes(Tail(ops))

\* The codes of the respondents, in order, whose recorded annotationPages
\* contain the page index.
RECURSIVE PlannedCodesOn(_, _)
PlannedCodesOn(pageIndex, details) ==
  IF details = <<>> THEN <<>>
  ELSE (IF pageIndex \in PageSet(Head(details).annotationPages)
          THEN <<Head(details).code>> ELSE <<>>)
         \o PlannedCodesOn(pageIndex, Tail(details))

\* C12: the annotator follows the precomputed plan: in the document
\* annotatePdf returns for a plan entry, a page that exists carries the code
\* of a respondent exactly when the page index is in the annotationPages the
\* plan's respondentDetails record for that respondent.
C12_StampsFollowPlan ==
  \A k \in 1..Len(distributionPlan) :
    \A c \in AnnotateCallsFor(k) :
      calls[c].status = "ok" =>
        /\ calls[c].arg.respondentCodes = distributionPlan[k].respondentCodes
        /\ Len(calls[c].result.pages) = calls[c].env.actualPages
        /\ \A pg \in 1..Len(calls[c].result.pages) :
             StampedCodes(calls[c].result.pages[pg])
               = PlannedCodesOn(pg - 1, distributionPlan[k].respondentDetails)

C12_Witness ==
  /\ pc = "zip"
  /\ Len(distributionPlan) = 2
  /\ event.body.metadata.pagesCount = 2
  /\ Len(distributionPlan[2].respondentCodes) = 1
  /\ Len(annotatedPdfBuffers) = 2
  /\ Len(annotatedPdfBuffers[2].pages) = 4
  /\ StampedCodes(annotatedPdfBuffers[2].pages[3])
       = distributionPlan[2].respondentCodes
  /\ StampedCodes(annotatedPdfBuffers[2].pages[4])
       = distributionPlan[2].respondentCodes
  /\ StampedCodes(annotatedPdfBuffers[2].pages[1]) = <<>>

\* C13: in the live path the plan entries are processed one at a time in
\* increasing pdfIndex order: the k-th download is that of plan entry k, it
\* starts only after the download and (if any) the annotation of entry k-1
\* have completed, and at no moment are two collaborator calls in progress.
C13_StrictlySequential ==
  /\ \A c \in 1..Len(calls) : calls[c].status = "pending" => c = Len(calls)
  /\ Cardinality(CallsOf({"downloadPdf"})) <= Len(distributionPlan)
  /\ \A k \in 1..Cardinality(CallsOf({"downloadPdf"})) :
       /\ calls[DownloadPos(k)].arg = distributionPlan[k].pdfUrl
       /\ distributionPlan[k].pdfIndex = k - 1
       /\ k > 1 =>
            /\ calls[DownloadPos(k - 1)].status = "ok"
            /\ distributionPlan[k - 1].respondentCodes # <<>>
                 => AnnotateCallsFor(k - 1) # {}
            /\ \A c \in AnnotateCallsFor(k - 1) :
                 c < DownloadPos(k) /\ calls[c].status = "ok"

C13_Witness ==
  /\ pc = "download"
  /\ planIdx = 3
  /\ Len(calls) = 5
  /\ calls[1].fn = "downloadPdf" /\ calls[1].status = "ok"
  /\ calls[2].fn = "annotatePdf" /\ calls[2].status = "ok"
  /\ calls[3].fn = "downloadPdf" /\ calls[3].status = "ok"
  /\ calls[4].fn = "annotatePdf" /\ calls[4].status = "ok"
  /\ calls[5].fn = "downloadPdf" /\ calls[5].status = "pending"
  /\ calls[5].arg = distributionPlan[3].pdfUrl

\* More than 2 GiB = 2048 MiB, on a <<MiB, bytes>> pair.
LargerThan2GiB(length) ==
  length[1] > 2048 \/ (length[1] = 2048 /\ length[2] > 0)

\* C14: an archive larger than 2 GiB is answered with 413 (not the generic
\* 500) and uploadToFileIo is never called; an archive of at most 2 GiB
\* proceeds to the upload.
C14_SizeCeiling ==
  \A c \in CallsOf({"createZip"}) :
    calls[c].status = "ok" =>
      IF LargerThan2GiB(calls[c].result.length)
        THEN /\ pc = "done"
             /\ response.statusCode = 413
             /\ response.statusCode # InternalServerError("").statusCode
             /\ CallsOf({"uploadToFileIo"}) = {}
        ELSE /\ CallsOf({"uploadToFileIo"}) = {c + 1}
             /\ calls[c + 1].arg.zipBuffer = calls[c].result
             /\ response.statusCode # 413

C14_Witness ==
  /\ pc = "done"
  /\ response.statusCode = 413
  /\ zipBuffer.length = <<2 * 1024, 1>>
  /\ Len(zipBuffer.files) = 2
  /\ calls[Len(calls)].fn = "createZip"

\* The validated fields a request body violates.
ViolatedFields(body) ==
  (IF body.pdfUrls.kind # "ok" THEN {"pdfUrls"} ELSE {})
    \cup (IF body.annotate = "notBoolean" THEN {"annotate"} ELSE {})
    \cup (IF body.metadata.kind = "undefined" THEN {"metadata"} ELSE {})
    \cup (IF body.metadata.kind = "badLogoUrl" THEN {"logoUrl"} ELSE {})
    \cup (IF body.metadata.kind = "badPagesCount" THEN {"pagesCount"} ELSE {})
    \cup (IF body.metadata.kind = "respondentenNotArray"
            THEN {"respondenten"} ELSE {})
    \cup (IF body.metadata.kind = "badRespondent" THEN {"code"} ELSE {})

\* The field names that occur in a message of the handler.
FieldsNamed(message) ==
  IF message = "Invalid 'pdfUrls': must be an array of strings."
    THEN {"pdfUrls"}
  ELSE IF message = "Invalid 'annotate': must be a boolean."
    THEN {"annotate"}
  ELSE IF message = "Invalid 'metadata' object or its properties."
    THEN {"metadata"}
  ELSE {}

\* C15: a request that violates a validated field (pdfUrls, annotate,
\* metadata.logoUrl, metadata.pagesCount, metadata.respondenten or a
\* respondent's code) is answered with a 400-class response whose message
\* names a field that was violated.
C15_ViolationNamesField ==
  (pc = "done" /\ Parsed /\ ViolatedFields(event.body) # {}) =>
    /\ response.statusCode \in 400..499
    /\ FieldsNamed(response.body.message) \cap ViolatedFields(event.body) # {}

\* C16: every invocation ends with exactly one structured response (the
\* handler is never stuck without one, and once it has answered it does
\* nothing more); a failed download, annotation, packaging or upload gives a
\* non-200 response with a message and the cause's message, so a live 200
\* is returned only when every download, every required annotation, the
\* packaging, the size check and the upload succeeded.
C16_OneStructuredResponse ==
  /\ (pc = "done") <=> (response # NoResponse)
  /\ (pc = "done") <=> ~ENABLED Next
  /\ pc = "done" =>
       /\ response.statusCode \in {200, 204, 400, 405, 413, 500}
       /\ response.statusCode # 204 =>
            DOMAIN response.body \cap {"message", "status", "debug"} # {}
  /\ (\E c \in 1..Len(calls) : calls[c].status = "failed") =>
       /\ pc = "done"
       /\ response.statusCode # 200
       /\ {"message", "error"} \subseteq DOMAIN response.body
  /\ (pc = "done" /\ response.statusCode = 200 /\ ~event.debug) =>
       /\ \A c \in 1..Len(calls) : calls[c].status = "ok"
       /\ Cardinality(CallsOf({"downloadPdf"})) = Len(distributionPlan)
       /\ \A k \in 1..Len(distributionPlan) :
            distributionPlan[k].respondentCodes # <<>>
              => AnnotateCallsFor(k) # {}
       /\ \E z \in CallsOf({"createZip"}) :
            ~LargerThan2GiB(calls[z].result.length)
       /\ CallsOf({"uploadToFileIo"}) # {}

C16_Witness ==
  /\ pc = "done"
  /\ response.statusCode = 500
  /\ Len(distributionPlan) = 2
  /\ Len(calls) > 0
  /\ calls[Len(calls)].fn = "uploadToFileIo"
  /\ calls[Len(calls)].status = "failed"
  /\ response.body.error = "upload failed"

\* The images drawn on a page.
RECURSIVE DrawnImages(_)
DrawnImages(ops) ==
  IF ops = <<>> THEN 0
  ELSE (IF Head(ops).op = "drawImage" THEN 1 ELSE 0) + DrawnImages(Tail(ops))

\* C18: a failure to download or embed the logo never aborts the batch:
\* the annotatePdf call resolves with a document without logo whose in-bounds
\* planned pages still carry the respondent code, and the handler goes on;
\* a failed download of a source PDF ends the request with 500.
C18_LogoFailureTolerated ==
  /\ \A c \in CallsOf({"annotatePdf"}) :
       (calls[c].status # "pending" /\ calls[c].env.logoFails
          /\ ~calls[c].env.loadFails) =>
         /\ calls[c].status = "ok"
         /\ c < Len(calls)
         /\ calls[c + 1].fn \in {"downloadPdf", "createZip"}
         /\ ~calls[c].result.logo
         /\ \A pg \in 1..Len(calls[c].result.pages) :
              DrawnImages(calls[c].result.pages[pg]) = 0
         /\ \A j \in 1..Len(calls[c].arg.respondentCodes) :
              \A q \in PageSet(calculateAnnotationPages(j - 1,
                                 calls[c].arg.pagesCount)) :
                q < Len(calls[c].result.pages) =>
                  StampedCodes(calls[c].result.pages[q + 1])
                    = <<calls[c].arg.respondentCodes[j]>>
  /\ \A c \in CallsOf({"downloadPdf"}) :
       calls[c].status = "failed" =>
         /\ c = Len(calls)
         /\ pc = "done"
         /\ response.statusCode = 500

C18_Witness ==
  /\ pc = "download"
  /\ planIdx = 2
  /\ calls[2].fn = "annotatePdf"
  /\ calls[2].status = "ok"
  /\ calls[2].env.logoFails
  /\ calls[2].arg.logoUrl = "logo"
  /\ Len(calls[2].result.pages) = 4
  /\ StampedCodes(calls[2].result.pages[3]) = <<calls[2].arg.respondentCodes[1]>>
  /\ DrawnImages(calls[2].result.pages[3]) = 0

\* C19: createZip is called at most once and only after every plan entry
\* has been processed successfully; it receives one blob per plan entry in
\* plan order, the blob of entry i named batch_{i}.pdf (i counted from 1);
\* uploadToFileIo is called at most once, only after createZip has
\* succeeded, with the archive createZip resolved with.
C19_PackagingAndUploadOnce ==
  /\ Cardinality(CallsOf({"createZip"})) <= 1
  /\ Cardinality(CallsOf({"uploadToFileIo"})) <= 1
  /\ \A z \in CallsOf({"createZip"}) :
       /\ \A c \in 1..(z - 1) :
            /\ calls[c].fn \in {"downloadPdf", "annotatePdf"}
            /\ calls[c].status = "ok"
       /\ Cardinality(CallsOf({"downloadPdf"})) = Len(distributionPlan)
       /\ Len(calls[z].arg) = Len(distributionPlan)
       /\ \A i \in 1..Len(distributionPlan) :
            /\ calls[z].arg[i].filename = <<"batch_", i, ".pdf">>
            /\ calls[z].arg[i].filename
                 = <<"batch_", distributionPlan[i].pdfIndex + 1, ".pdf">>
            /\ IF distributionPlan[i].respondentCodes = <<>>
                 THEN calls[z].arg[i].buffer = calls[DownloadPos(i)].result
                 ELSE \E c \in AnnotateCallsFor(i) :
                        calls[z].arg[i].buffer = calls[c].result
  /\ \A u \in CallsOf({"uploadToFileIo"}) :
       /\ u > 1
       /\ calls[u - 1].fn = "createZip"
       /\ calls[u - 1].status = "ok"
       /\ calls[u].arg.zipBuffer = calls[u - 1].result

C19_Witness ==
  /\ pc = "upload"
  /\ Len(distributionPlan) = 3
  /\ Len(calls) = 7
  /\ calls[6].fn = "createZip"
  /\ Len(calls[6].arg) = 3
  /\ calls[6].arg[3].filename = <<"batch_", 3, ".pdf">>
  /\ calls[6].arg[3].buffer = DownloadedBuffer(distributionPlan[3].pdfUrl)
  /\ calls[7].fn = "uploadToFileIo"

RECURSIVE SumOf(_)
SumOf(numbers) ==
  IF numbers = <<>> THEN 0 ELSE Head(numbers) + SumOf(Tail(numbers))

\* C20: in every live-mode success response filesInZip equals the number
\* of PDF URLs of the request, respondentsPerFile has one element per PDF
\* URL, the i-th being the number of respondent codes of plan entry i, its
\* elements sum to respondentCount, and respondentCount equals the length
\* of metadata.respondenten.
C20_SuccessCounts ==
  (pc = "done" /\ response.statusCode = 200 /\ ~event.debug) =>
    LET body == response.body
        pdfUrls == event.body.pdfUrls.val
    IN  /\ body.filesInZip = Len(pdfUrls)
        /\ Len(body.respondentsPerFile) = Len(pdfUrls)
        /\ \A i \in 1..Len(pdfUrls) :
             body.respondentsPerFile[i]
               = Len(distributionPlan[i].respondentCodes)
        /\ body.respondentCount = Len(event.body.metadata.respondenten)
        /\ SumOf(body.respondentsPerFile) = body.respondentCount

---------------------------------------------------------------------------
(* Properties of annotatePdf (checked under SpecAnnotator) *)

DetailsOf(respondentCodes, p) ==
  [j \in 1..Len(respondentCodes) |->
    [code |-> respondentCodes[j],
     annotationPages |-> calculateAnnotationPages(j - 1, p)]]

ExpectedPages == getPagesPerRespondentBlock(args.p) * Len(args.respondentCodes)

\* C17: when the page count of the source PDF differs from
\* getPagesPerRespondentBlock(p) * (respondents in the slice), annotatePdf
\* does not fail: it stamps exactly the planned page indices below the
\* actual page count, skips the others and returns the document.
C17_PageCountMismatchTolerated ==
  (fn = "annotatePdf" /\ ~args.env.loadFails
     /\ args.env.actualPages # ExpectedPages) =>
    /\ ~result.threw
    /\ result.value.annotated
    /\ Len(result.value.pages) = args.env.actualPages
    /\ \A pg \in 1..Len(result.value.pages) :
         StampedCodes(result.value.pages[pg])
           = PlannedCodesOn(pg - 1, DetailsOf(args.respondentCodes, args.p))
    /\ \A j \in 1..Len(args.respondentCodes) :
         \A q \in PageSet(calculateAnnotationPages(j - 1, args.p)) :
           q < args.env.actualPages =>
             StampedCodes(result.value.pages[q + 1]) = <<args.respondentCodes[j]>>

C17_Witness ==
  /\ fn = "annotatePdf"
  /\ ~result.threw
  /\ args.respondentCodes = <<"A", "B">>
  /\ args.p = 3
  /\ args.env.actualPages = 9
  /\ StampedCodes(result.value.pages[5]) = <<"A">>
  /\ StampedCodes(result.value.pages[9]) = <<"B">>
  /\ StampedCodes(result.value.pages[6]) = <<>>

---------------------------------------------------------------------------
(* Two requests that differ in annotate only (checked under SpecPair) *)

\* C21: the annotate flag does not influence processing: of two valid
\* requests that differ only in annotate, the second invocation makes the
\* plan of the first, calls the collaborators the first called, in the same
\* order and with the same arguments (annotatePdf included, for every
\* non-empty slice), can always go on as the first did, and returns the
\* response of the first.
C21_AnnotateFlagIgnored ==
  twin.run = 2 =>
    /\ event.body.annotate # twin.event.body.annotate
    /\ [event EXCEPT !.body.annotate = twin.event.body.annotate] = twin.event
    /\ planned => distributionPlan = twin.distributionPlan
    /\ Len(calls) <= Len(twin.calls)
    /\ \A c \in 1..Len(calls) :
         /\ calls[c].fn = twin.calls[c].fn
         /\ calls[c].arg = twin.calls[c].arg
    /\ \A k \in 1..Len(annotatedPdfBuffers) :
         distributionPlan[k].respondentCodes # <<>> => AnnotateCallsFor(k) # {}
    /\ pc # "done" => ENABLED NextPair
    /\ pc = "done" =>
         /\ planned
         /\ calls = twin.calls
         /\ response = twin.response

C21_Witness ==
  /\ twin.run = 2
  /\ pc = "done"
  /\ event.body.annotate = "false"
  /\ twin.event.body.annotate = "true"
  /\ ~event.debug
  /\ response.statusCode = 200
  /\ response = twin.response
  /\ Len(distributionPlan) = 2
  /\ Len(calls) = 6
  /\ calls[2].fn = "annotatePdf"
  /\ calls[4].fn = "annotatePdf"
  /\ calls = twin.calls

====
